---- MODULE Spec2Model ----
(***************************************************************************)
(* Model of RelVal/o2dpg_release_validation.py: the release-validation     *)
(* wrapper that compares two files or two simulation directories.          *)
(*                                                                         *)
(* Python values are modelled as follows.  A str is a sequence of          *)
(* one-character strings, a list is a sequence, a dict is a function, a    *)
(* float threshold is the exact fraction [num, den].  A call that can      *)
(* raise returns a record [raised, value]: value is the returned object    *)
(* when raised is FALSE and the exception name otherwise.                  *)
(***************************************************************************)
EXTENDS Integers, Sequences, FiniteSets, TLC

VARIABLES
    input,              \* kind of the two paths of args.input
    given,              \* the five category flags as parsed from the command line
    args,               \* the argparse namespace (rel_val_sim_dirs rewrites its flags)
    output_exists,      \* exists(args.output)
    written,            \* directories made and artifacts written by the run
    pc,                 \* position of the run inside rel_val / rel_val_sim_dirs
    ci,                 \* index of the category block rel_val_sim_dirs is at
    file_sizes_to_json, \* << >>, or <<the sizes read and the report to dump>>
    executed,           \* categories whose block was entered, in order
    ngroups,            \* number of groups/files of the current category
    ran,                \* how many of them have been compared so far
    last_call,          \* << >>, then <<exit status and return value of the last rel_val_files>>
    nprimitive,         \* number of external primitives started (Popen)
    summary_dict,       \* summary_dict of rel_val_sim_dirs
    result,             \* what rel_val returned or raised
    call,               \* arguments of the function applied on its own
    returned            \* << >> before the call, then <<what the function returned>>

runVars == <<input, given, args, output_exists, written, pc, ci, file_sizes_to_json,
             executed, ngroups, ran, last_call, nprimitive, summary_dict, result>>
vars == <<input, given, args, output_exists, written, pc, ci, file_sizes_to_json,
          executed, ngroups, ran, last_call, nprimitive, summary_dict, result, call, returned>>

None == "None"

\* ---------------------------------------------------------------- bounds
MaxSize == 2
MaxLen == 3
MaxFiles == 2
MaxPaths == 2
MaxKeys == 2
MaxAudit == 1
MaxCompare == 1

\* ---------------------------------------------------------------- helpers
Abs(x) == IF x < 0 THEN -x ELSE x

Range(s) == {s[i] : i \in 1..Len(s)}

SeqsUpTo(S, n) == UNION {[1..k -> S] : k \in 0..n}

Returns(v) == [raised |-> FALSE, value |-> v]

Raises(e) == [raised |-> TRUE, value |-> e]

\* ---------------------------------------------------------------- size audit
\* --threshold default of the rel-val parser
DefaultThreshold == [num |-> 1, den |-> 10]

\* the literal passed to file_sizes by rel_val_sim_dirs
AuditThreshold == [num |-> 1, den |-> 2]

Thresholds == {DefaultThreshold, AuditThreshold}

\* itertools.combinations(range(n), 2), 0-based pairs in emission order
RECURSIVE CombinationsFrom(_, _, _)
CombinationsFrom(i1, i2, n) ==
    IF i1 >= n - 1 THEN << >>
    ELSE IF i2 >= n THEN CombinationsFrom(i1 + 1, i1 + 2, n)
    ELSE <<(<<i1, i2>>)>> \o CombinationsFrom(i1, i2 + 1, n)

Combinations(n) == CombinationsFrom(0, 1, n)

\* diff / size > threshold on floats; division by zero raises
Divides(size) == size # 0

RatioExceeds(diff, size, threshold) == diff * threshold.den > threshold.num * size

RECURSIVE ScanPairs(_, _, _, _)
ScanPairs(pairs, sizes, threshold, diff_indices) ==
    IF pairs = << >> THEN Returns(diff_indices)
    ELSE LET i1 == Head(pairs)[1]
             i2 == Head(pairs)[2]
             diff == Abs(sizes[i1 + 1] - sizes[i2 + 1])
         IN  IF ~Divides(sizes[i2 + 1]) THEN Raises("ZeroDivisionError")
             ELSE IF RatioExceeds(diff, sizes[i2 + 1], threshold)
                     \/ RatioExceeds(diff, sizes[i2 + 1], threshold)
                  THEN ScanPairs(Tail(pairs), sizes, threshold, Append(diff_indices, Head(pairs)))
                  ELSE ScanPairs(Tail(pairs), sizes, threshold, diff_indices)

exceeding_difference_thresh(sizes, threshold) ==
    ScanPairs(Combinations(Len(sizes)), sizes, threshold, << >>)

\* file_sizes on the mutual files 1..Len(table); table[f] is the list of
\* st_size of file f under each directory
RECURSIVE FileSizesFrom(_, _, _, _)
FileSizesFrom(f, table, threshold, files) ==
    IF f > Len(table) THEN Returns(files)
    ELSE LET diff_indices == exceeding_difference_thresh(table[f], threshold)
         IN  IF diff_indices.raised THEN diff_indices
             ELSE IF diff_indices.value # << >>
                  THEN FileSizesFrom(f + 1, table, threshold, files \cup {[file |-> f, sizes |-> table[f]]})
                  ELSE FileSizesFrom(f + 1, table, threshold, files)

file_sizes(table, threshold) ==
    LET files == FileSizesFrom(1, table, threshold, {})
    IN  IF files.raised THEN files
        ELSE Returns([files |-> files.value, threshold |-> threshold])

\* ---- exceeding_difference_thresh applied on its own
SizeLists == SeqsUpTo(0..MaxSize, MaxLen)

IdleRun ==
    /\ input = << >> /\ given = None /\ args = None /\ output_exists = FALSE
    /\ written = {} /\ pc = None /\ ci = 0 /\ file_sizes_to_json = << >>
    /\ executed = << >> /\ ngroups = 0 /\ ran = 0 /\ last_call = << >>
    /\ nprimitive = 0 /\ summary_dict = << >> /\ result = None

InitSizes ==
    /\ IdleRun
    /\ call \in [fn : {"exceeding_difference_thresh"}, sizes : SizeLists, threshold : Thresholds]
    /\ returned = << >>

ExceedingDifferenceThresh ==
    /\ call.fn = "exceeding_difference_thresh"
    /\ returned = << >>
    /\ returned' = <<exceeding_difference_thresh(call.sizes, call.threshold)>>
    /\ UNCHANGED <<call, runVars>>

NextSizes == ExceedingDifferenceThresh

SpecSizes == InitSizes /\ [][NextSizes]_vars

\* C5: the size audit never fails on a zero size: exceeding_difference_thresh
\* always returns, flags every pair with exactly one zero size and never
\* flags a pair of two zero sizes.
C5_ZeroSizeGuarded ==
    (call.fn = "exceeding_difference_thresh" /\ returned # << >>) =>
        /\ ~returned[1].raised
        /\ \A i1, i2 \in 0..(Len(call.sizes) - 1) :
              i1 < i2 =>
                LET a == call.sizes[i1 + 1]
                    b == call.sizes[i2 + 1]
                IN  /\ ((a = 0) # (b = 0)) => <<i1, i2>> \in Range(returned[1].value)
                    /\ (a = 0 /\ b = 0) => <<i1, i2>> \notin Range(returned[1].value)

\* ---------------------------------------------------------------- severity summary
\* choices of inspect --severity: the labels a verdict's test_summary may use
Severities == {"GOOD", "WARNING", "BAD", "CRIT_NC", "NONCRIT_NC"}

\* default of the severity parameter of has_severity
DefaultSeverity == <<"BAD", "CRIT_NC">>

ItemLists == {<< >>, <<"h1">>}

\* json.load(f)["test_summary"]: a dict from some severities to lists of names
TestSummaries ==
    UNION {[D -> ItemLists] : D \in {K \in SUBSET Severities : Cardinality(K) <= MaxKeys}}

\* "not names" for names = res.get(s): None (absent key) and the empty list
\* are both falsy
Falsy_NoneOnly(res, s) == s \notin DOMAIN res

Falsy(res, s) == s \notin DOMAIN res \/ res[s] = << >>

RECURSIVE HasSeverityFrom(_, _, _)
HasSeverityFrom(res, severity, ret) ==
    IF severity = << >> THEN ret
    ELSE IF Falsy(res, Head(severity))
         THEN HasSeverityFrom(res, Tail(severity), ret)
         ELSE HasSeverityFrom(res, Tail(severity), TRUE)

\* has_severity on a verdict file whose test_summary is res
has_severity(res, severity) == HasSeverityFrom(res, severity, FALSE)

RECURSIVE SummaryListFrom(_, _, _)
SummaryListFrom(paths_to_summary, verdicts, summary_list) ==
    IF paths_to_summary = << >> THEN summary_list
    ELSE LET p == Head(paths_to_summary)
         IN  IF has_severity(verdicts[p], DefaultSeverity)
             THEN SummaryListFrom(Tail(paths_to_summary), verdicts, Append(summary_list, p))
             ELSE SummaryListFrom(Tail(paths_to_summary), verdicts, summary_list)

\* add_to_summary; verdicts[p] is the test_summary stored in file p;
\* the value is summary_dict after the call
add_to_summary(paths_to_summary, key, dict, verdicts) ==
    LET summary_list == SummaryListFrom(paths_to_summary, verdicts, << >>)
    IN  [k \in (DOMAIN dict) \cup {key} |-> IF k = key THEN summary_list ELSE dict[k]]

EmptyDict == [k \in {} |-> << >>]

\* ---- add_to_summary and has_severity (inspect) applied on their own
VerdictPaths == {"a/Summary.json", "b/Summary.json"}

SeverityLists == SeqsUpTo(Severities, 2)

InitSummary ==
    /\ IdleRun
    /\ \/ call \in [fn : {"add_to_summary"}, paths : SeqsUpTo(VerdictPaths, MaxPaths),
                    verdicts : [VerdictPaths -> TestSummaries], key : {"hist", "qc"}]
       \/ call \in [fn : {"has_severity"}, res : TestSummaries, severity : SeverityLists]
    /\ returned = << >>

AddToSummary ==
    /\ call.fn = "add_to_summary"
    /\ returned = << >>
    /\ returned' = <<add_to_summary(call.paths, call.key, EmptyDict, call.verdicts)>>
    /\ UNCHANGED <<call, runVars>>

Inspect ==
    /\ call.fn = "has_severity"
    /\ returned = << >>
    /\ returned' = <<has_severity(call.res, call.severity)>>
    /\ UNCHANGED <<call, runVars>>

NextSummary == AddToSummary \/ Inspect

SpecSummary == InitSummary /\ [][NextSummary]_vars

\* a verdict is flagged for a set of severities when one of them maps to a
\* non-empty item list
Flagged(res, sevs) == \E s \in sevs : s \in DOMAIN res /\ Len(res[s]) > 0

\* the subsequence of paths whose verdict is flagged for BAD or CRIT_NC
FlaggedPaths(paths, verdicts) ==
    SelectSeq(paths, LAMBDA p : Flagged(verdicts[p], {"BAD", "CRIT_NC"}))

\* C3: after add_to_summary the entry summary[key] is exactly the
\* subsequence of the paths, in input order, whose test_summary has a
\* non-empty list for BAD or CRIT_NC; has_severity is true exactly when a
\* requested severity maps to a non-empty list.
C3_SummaryIsFlaggedSubsequence ==
    /\ (call.fn = "add_to_summary" /\ returned # << >>) =>
          /\ DOMAIN returned[1] = {call.key}
          /\ returned[1][call.key] = FlaggedPaths(call.paths, call.verdicts)
    /\ (call.fn = "has_severity" /\ returned # << >>) =>
          (returned[1] <=> Flagged(call.res, Range(call.severity)))

\* a list with a flagged and an unflagged verdict was summarised, and a
\* verdict {"BAD": ["h1"]} was inspected for BAD
C3_Witness ==
    \/ /\ call.fn = "add_to_summary" /\ returned # << >>
       /\ Len(call.paths) = 2
       /\ Len(returned[1][call.key]) = 1
       /\ returned[1][call.key][1] = call.paths[2]
    \/ /\ call.fn = "has_severity" /\ returned # << >>
       /\ call.res = [s \in {"BAD"} |-> <<"h1">>]
       /\ call.severity = <<"BAD">>
       /\ returned[1]

\* ---------------------------------------------------------------- str
\* code points of the characters used
Ord(c) ==
    CASE c = "." -> 46
      [] c = "/" -> 47
      [] c = "_" -> 95
      [] c = "a" -> 97
      [] c = "b" -> 98
      [] c = "d" -> 100
      [] c = "e" -> 101
      [] c = "x" -> 120

\* str.__lt__ / str.__le__
RECURSIVE StrLess(_, _)
StrLess(a, b) ==
    IF b = << >> THEN FALSE
    ELSE IF a = << >> THEN TRUE
    ELSE IF Head(a) = Head(b) THEN StrLess(Tail(a), Tail(b))
    ELSE Ord(Head(a)) < Ord(Head(b))

\* list.sort() of a list of str
Sort(list) == SortSeq(list, StrLess)

\* "g in ic" for two str
Contains(ic, g) ==
    \E i \in 1..(Len(ic) - Len(g) + 1) : SubSeq(ic, i, i + Len(g) - 1) = g

\* str.lstrip("/")
RECURSIVE LStrip(_)
LStrip(str) == IF str # << >> /\ Head(str) = "/" THEN LStrip(Tail(str)) ELSE str

\* b.replace(".", "_")
Replace(b) == [i \in 1..Len(b) |-> IF b[i] = "." THEN "_" ELSE b[i]]

\* the orders in which a Python set can be listed
Listings(S) == {l \in [1..Cardinality(S) -> S] : Range(l) = S}

\* ---------------------------------------------------------------- histograms from chains
\* accepted_types of make_generic_histograms_from_chain
AcceptedTypes == {"UInt_t", "Int_t", "Float_t", "Double_t", "Double32_t"}

\* branch names of a chain: names of the leaves with an accepted type, sorted;
\* leaves is the dict leaf name -> type name of GetListOfLeaves
BranchNames(leaves, order) ==
    Sort(SelectSeq(order, LAMBDA l : l \in DOMAIN leaves /\ leaves[l] \in AcceptedTypes))

\* first loop: Draw on chain1, keep the successful branches and write them
\* to output_file1; st = [branch_names2, out1]
RECURSIVE DrawFirst(_, _, _, _)
DrawFirst(branch_names1, fail1, output_file1, st) ==
    IF branch_names1 = << >> THEN Returns(st)
    ELSE LET b == Head(branch_names1)
         IN  IF b \in fail1
             THEN DrawFirst(Tail(branch_names1), fail1, output_file1, st)
             ELSE IF ~output_file1 THEN Raises("AttributeError")
             ELSE DrawFirst(Tail(branch_names1), fail1, output_file1,
                            [branch_names2 |-> Append(st.branch_names2, b),
                             out1 |-> st.out1 \cup {Replace(b)}])

\* second loop: the return value of chain2.Draw is not looked at
WriteSecond(b, fail2, out2) == out2 \cup {Replace(b)}

RECURSIVE DrawSecond(_, _, _, _)
DrawSecond(branch_names2, fail2, output_file2, out2) ==
    IF branch_names2 = << >> THEN Returns(out2)
    ELSE IF ~output_file2 THEN Raises("AttributeError")
    ELSE DrawSecond(Tail(branch_names2), fail2, output_file2,
                    WriteSecond(Head(branch_names2), fail2, out2))

\* make_generic_histograms_from_chain.  leaves1/leaves2: the leaves of the
\* two chains; fail1/fail2: branches whose Draw returns -1; output_file1/2:
\* whether load_root_file could open the output (None otherwise); order,
\* shrunk: listing orders of the leaves and of the shrunk intersection.
\* Value: the histogram names written to each output.
make_generic_histograms_from_chain(leaves1, leaves2, fail1, fail2, output_file1, output_file2, order, shrunk) ==
    LET names1 == BranchNames(leaves1, order)
        names2 == BranchNames(leaves2, order)
        branch_names1 == IF names1 # names2
                         THEN SelectSeq(shrunk, LAMBDA b : b \in Range(names1) \cap Range(names2))
                         ELSE names1
        first == DrawFirst(branch_names1, fail1, output_file1, [branch_names2 |-> << >>, out1 |-> {}])
    IN  IF first.raised THEN first
        ELSE LET second == DrawSecond(first.value.branch_names2, fail2, output_file2, {})
             IN  IF second.raised THEN second
                 ELSE IF ~output_file1 \/ ~output_file2 THEN Raises("AttributeError")
                 ELSE Returns([out1 |-> first.value.out1, out2 |-> second.value])

\* ---- make_generic_histograms_from_chain applied on its own
LeafNames == {<<"x">>, <<"a", ".", "b">>}

LeafTypes == {"Float_t", "Int_t", "Char_t"}

LeafDicts == UNION {[D -> LeafTypes] : D \in SUBSET LeafNames}

InitHist ==
    /\ IdleRun
    /\ call \in [fn : {"make_generic_histograms_from_chain"},
                 leaves1 : LeafDicts, leaves2 : LeafDicts,
                 fail1 : SUBSET LeafNames, fail2 : SUBSET LeafNames,
                 output_file1 : BOOLEAN, output_file2 : BOOLEAN]
    /\ returned = << >>

MakeGenericHistogramsFromChain ==
    /\ call.fn = "make_generic_histograms_from_chain"
    /\ returned = << >>
    /\ \E order \in Listings(LeafNames) :
         \E shrunk \in Listings(LeafNames) :
           returned' = <<make_generic_histograms_from_chain(
                            call.leaves1, call.leaves2, call.fail1, call.fail2,
                            call.output_file1, call.output_file2, order, shrunk)>>
    /\ UNCHANGED <<call, runVars>>

NextHist == MakeGenericHistogramsFromChain

SpecHist == InitHist /\ [][NextHist]_vars

\* numeric fields of a side
NumericFields(leaves) == {l \in DOMAIN leaves : leaves[l] \in AcceptedTypes}

\* C10: the distribution names written to output A equal those written to
\* output B, and both are the names of the numeric fields common to the two
\* sides whose fill succeeded on side A and on side B.
C10_BothSidesFilled ==
    (call.fn = "make_generic_histograms_from_chain" /\ returned # << >> /\ ~returned[1].raised) =>
        LET kept == (NumericFields(call.leaves1) \cap NumericFields(call.leaves2))
                        \ (call.fail1 \cup call.fail2)
        IN  /\ returned[1].value.out1 = returned[1].value.out2
            /\ returned[1].value.out1 = {Replace(b) : b \in kept}

\* ---------------------------------------------------------------- mutual files
\* glob(f"{d}/**/{glob_pattern}", recursive=True): the matching files under
\* d, each as d + "/" + relative path, in the listing order of the file system
Glob(d, listing) == [i \in 1..Len(listing) |-> d \o <<"/">> \o listing[i]]

\* f.sort(), then f[i] = f[i][len(d):].lstrip("/")
SortAndStrip(f, d) ==
    LET sorted == Sort(f)
    IN  [i \in 1..Len(sorted) |-> LStrip(SubSeq(sorted[i], Len(d) + 1, Len(sorted[i])))]

\* intersection = list(set(intersection) & set(f)) for f in files[1:];
\* listing is the order in which the resulting set is listed
RECURSIVE Intersect(_, _, _)
Intersect(intersection, files, listing) ==
    IF files = << >> THEN intersection
    ELSE Intersect(SelectSeq(listing, LAMBDA p : p \in Range(intersection) \cap Range(Head(files))),
                   Tail(files), listing)

\* for ic in intersection_cache: if g in ic: intersection.append(ic)
GrepOne(g, intersection_cache) == SelectSeq(intersection_cache, LAMBDA ic : Contains(ic, g))

RECURSIVE Grep(_, _)
Grep(grep, intersection_cache) ==
    IF grep = << >> THEN << >>
    ELSE GrepOne(Head(grep), intersection_cache) \o Grep(Tail(grep), intersection_cache)

\* find_mutual_files.  found[i]: what glob returns for dirs[i]; grep: the
\* list of patterns (<< >> for None or an empty list); listing: the order
\* in which a set of relative paths is listed
find_mutual_files(dirs, found, grep, listing) ==
    LET files == [i \in 1..Len(dirs) |-> SortAndStrip(found[i], dirs[i])]
    IN  IF files = << >> THEN << >>
        ELSE LET intersection == Intersect(files[1], Tail(files), listing)
             IN  IF grep # << >> THEN Sort(Grep(grep, intersection))
                 ELSE Sort(intersection)

\* ---- find_mutual_files applied on its own
RelPaths == {<<"a">>, <<"b">>, <<"a", "b">>, <<"x", "/", "a">>}

Patterns == {<<"a">>, <<"b">>}

Dirs == <<(<<"d">>), (<<"e">>)>>

FileSets == {S \in SUBSET RelPaths : Cardinality(S) <= MaxFiles}

InitMutual ==
    /\ IdleRun
    /\ call \in [fn : {"find_mutual_files"}, A : FileSets, B : FileSets,
                 grep : SeqsUpTo(Patterns, 2)]
    /\ returned = << >>

FindMutualFiles ==
    /\ call.fn = "find_mutual_files"
    /\ returned = << >>
    /\ \E la \in Listings(call.A) :
         \E lb \in Listings(call.B) :
           \E listing \in Listings(RelPaths) :
             returned' = <<find_mutual_files(Dirs, <<Glob(Dirs[1], la), Glob(Dirs[2], lb)>>,
                                             call.grep, listing)>>
    /\ UNCHANGED <<call, runVars>>

NextMutual == FindMutualFiles

SpecMutual == InitMutual /\ [][NextMutual]_vars

\* C4: the result of find_mutual_files is sorted, has no path twice, has
\* only paths found under both locations and, with a non-empty filter set,
\* exactly the common paths that contain at least one filter.
C4_SortedUniqueMutual ==
    (call.fn = "find_mutual_files" /\ returned # << >>) =>
        LET r == returned[1]
            F == Range(call.grep)
        IN  /\ \A i \in 1..(Len(r) - 1) : ~StrLess(r[i + 1], r[i])
            /\ \A i, j \in 1..Len(r) : i # j => r[i] # r[j]
            /\ Range(r) \subseteq call.A \cap call.B
            /\ F = {} => Range(r) = call.A \cap call.B
            /\ F # {} => Range(r) = {p \in call.A \cap call.B : \E g \in F : Contains(p, g)}

\* ---------------------------------------------------------------- rel_val
\* what isfile, isdir and glob(f"{path}/pipeline*") say about a path
PathKinds ==
    {[isfile |-> FALSE, isdir |-> FALSE, pipeline |-> FALSE],
     [isfile |-> TRUE,  isdir |-> FALSE, pipeline |-> FALSE],
     [isfile |-> FALSE, isdir |-> TRUE,  pipeline |-> FALSE],
     [isfile |-> FALSE, isdir |-> TRUE,  pipeline |-> TRUE]}

is_sim_dir_NoMarker(path) == path.isdir

is_sim_dir(path) ==
    IF ~path.isdir THEN FALSE
    ELSE IF ~path.pipeline THEN FALSE
    ELSE TRUE

\* func as chosen by rel_val
Func(in) ==
    LET func1 == IF in[1].isfile /\ in[2].isfile THEN "rel_val_files" ELSE None
    IN  IF is_sim_dir(in[1]) /\ is_sim_dir(in[2]) THEN "rel_val_sim_dirs" ELSE func1

\* number of required positional parameters of the two candidates
Parameters(func) == IF func = "rel_val_files" THEN 4 ELSE 1

\* the blocks of rel_val_sim_dirs in program order
Categories == <<"hits", "tpctracks", "kine", "analysis", "qc">>

CategorySet == Range(Categories)

\* key under which each block calls add_to_summary
SummaryKey(c) == IF c = "hits" THEN "hist" ELSE c

\* hits, tpctracks and kine go through rel_val_ttree, analysis and qc through
\* rel_val_histograms
ThroughTTree(c) == c \in {"hits", "tpctracks", "kine"}

\* combine_patterns handed to rel_val_ttree, as its length
CombinePatterns(c, a) == IF c = "hits" THEN Len(a.detectors) ELSE 1

\* number of make-histograms-and-compare rounds of rel_val_ttree, or of
\* comparisons of rel_val_histograms, for nfiles mutual files
Rounds(c, a, nfiles) ==
    IF ThroughTTree(c) /\ CombinePatterns(c, a) # 0 THEN CombinePatterns(c, a) ELSE nfiles

\* not any((args.with_hits, ...)): enable all
EnableAll(with) == IF \E c \in CategorySet : with[c] THEN with ELSE [c \in CategorySet |-> TRUE]

\* return value of rel_val_files once p.wait() gave status
rel_val_files(status) == 0

ExitStatuses == {0, 1}

DetectorLists == {<< >>, <<"ITS">>, <<"ITS", "TPC">>}

\* verdicts the external primitive may leave in a Summary.json
RunVerdicts == {[s \in {"GOOD"} |-> <<"h1">>], [s \in {"BAD"} |-> <<"h1">>]}

\* a chain with one numeric leaf, for the histogram step of a round
RoundLeaves == [l \in {<<"x">>} |-> "Float_t"]

Init ==
    /\ input \in [1..2 -> PathKinds]
    /\ given \in [CategorySet -> BOOLEAN]
    /\ args \in [with : {given}, threshold : Thresholds, detectors : DetectorLists]
    /\ output_exists \in BOOLEAN
    /\ written = {}
    /\ pc = "rel_val"
    /\ ci = 0
    /\ file_sizes_to_json = << >>
    /\ executed = << >>
    /\ ngroups = 0
    /\ ran = 0
    /\ last_call = << >>
    /\ nprimitive = 0
    /\ summary_dict = EmptyDict
    /\ result = "running"
    /\ call = None
    /\ returned = << >>

\* rel_val up to and including the call func(args)
RelVal ==
    /\ pc = "rel_val"
    /\ LET func == Func(input)
       IN  IF func = None
           THEN /\ result' = "return 1"
                /\ pc' = "done"
                /\ UNCHANGED <<output_exists, written>>
           ELSE /\ output_exists' = TRUE
                /\ written' = IF output_exists THEN written ELSE written \cup {"output"}
                /\ IF Parameters(func) # 1
                   THEN /\ result' = "raise TypeError"
                        /\ pc' = "error"
                   ELSE /\ result' = result
                        /\ pc' = "size_audit"
    /\ UNCHANGED <<input, given, args, ci, file_sizes_to_json, executed, ngroups, ran,
                   last_call, nprimitive, summary_dict, call, returned>>

\* rel_val_sim_dirs: file_sizes([dir1, dir2], 0.5) over the mutual *.root files
SizeAudit ==
    /\ pc = "size_audit"
    /\ \E table \in SeqsUpTo([1..2 -> 0..MaxSize], MaxAudit) :
         LET r == file_sizes(table, AuditThreshold)
         IN  IF r.raised
             THEN /\ result' = "raise ZeroDivisionError"
                  /\ pc' = "error"
                  /\ UNCHANGED file_sizes_to_json
             ELSE /\ file_sizes_to_json' = <<[table |-> table, report |-> r.value]>>
                  /\ pc' = "dump"
                  /\ result' = result
    /\ UNCHANGED <<input, given, args, output_exists, written, ci, executed, ngroups, ran,
                   last_call, nprimitive, summary_dict, call, returned>>

\* rel_val_sim_dirs: dump of file_sizes.json, then enabling of all categories
\* when none is enabled.  file_sizes_to_json is not read again after the
\* dump and is dropped from the state.
DumpFileSizes ==
    /\ pc = "dump"
    /\ written' = written \cup {"file_sizes.json"}
    /\ file_sizes_to_json' = << >>
    /\ args' = [args EXCEPT !.with = EnableAll(args.with)]
    /\ ci' = 1
    /\ pc' = "category"
    /\ UNCHANGED <<input, given, output_exists, executed, ngroups, ran, last_call,
                   nprimitive, summary_dict, result, call, returned>>

\* "if args.with_X:" is false
SkipCategory ==
    /\ pc = "category"
    /\ ~args.with[Categories[ci]]
    /\ ci' = ci + 1
    /\ pc' = IF ci < Len(Categories) THEN "category" ELSE "finalize"
    /\ UNCHANGED <<input, given, args, output_exists, written, file_sizes_to_json, executed,
                   ngroups, ran, last_call, nprimitive, summary_dict, result, call, returned>>

\* "if args.with_X:" is true: mutual files, makedirs, preparation of the rounds
BeginCategory ==
    /\ pc = "category"
    /\ args.with[Categories[ci]]
    /\ \E nfiles \in 0..MaxCompare :
         ngroups' = Rounds(Categories[ci], args, nfiles)
    /\ ran' = 0
    /\ executed' = Append(executed, Categories[ci])
    /\ written' = written \cup {Categories[ci]}
    /\ pc' = "compare"
    /\ UNCHANGED <<input, given, args, output_exists, ci, file_sizes_to_json, last_call,
                   nprimitive, summary_dict, result, call, returned>>

\* one round of rel_val_ttree: make_generic_histograms_from_chain, rel_val_files
CompareTTree ==
    /\ pc = "compare"
    /\ ThroughTTree(Categories[ci])
    /\ ran < ngroups
    /\ \E output_file1 \in BOOLEAN, output_file2 \in BOOLEAN, status \in ExitStatuses :
         LET h == make_generic_histograms_from_chain(RoundLeaves, RoundLeaves, {}, {},
                      output_file1, output_file2, <<(<<"x">>)>>, <<(<<"x">>)>>)
         IN  IF h.raised
             THEN /\ result' = "raise AttributeError"
                  /\ pc' = "error"
                  /\ UNCHANGED <<ran, last_call, nprimitive>>
             ELSE /\ last_call' = <<[status |-> status, ret |-> rel_val_files(status)]>>
                  /\ nprimitive' = nprimitive + 1
                  /\ ran' = ran + 1
                  /\ UNCHANGED <<result, pc>>
    /\ UNCHANGED <<input, given, args, output_exists, written, ci, file_sizes_to_json, executed,
                   ngroups, summary_dict, call, returned>>

\* one file of rel_val_histograms: rel_val_files
CompareHistograms ==
    /\ pc = "compare"
    /\ ~ThroughTTree(Categories[ci])
    /\ ran < ngroups
    /\ \E status \in ExitStatuses :
         last_call' = <<[status |-> status, ret |-> rel_val_files(status)]>>
    /\ nprimitive' = nprimitive + 1
    /\ ran' = ran + 1
    /\ UNCHANGED <<input, given, args, output_exists, written, pc, ci, file_sizes_to_json,
                   executed, ngroups, result, summary_dict, call, returned>>

\* add_to_summary over the Summary.json files of the block
SummariseCategory ==
    /\ pc = "compare"
    /\ ran = ngroups
    /\ \E verdicts \in [1..ran -> RunVerdicts] :
         summary_dict' = add_to_summary([i \in 1..ran |-> i], SummaryKey(Categories[ci]),
                                        summary_dict, verdicts)
    /\ ci' = ci + 1
    /\ pc' = IF ci < Len(Categories) THEN "category" ELSE "finalize"
    /\ UNCHANGED <<input, given, args, output_exists, written, file_sizes_to_json, executed,
                   ngroups, ran, last_call, nprimitive, result, call, returned>>

\* dump of SummaryToBeChecked.json; rel_val_sim_dirs returns None
Finalize ==
    /\ pc = "finalize"
    /\ written' = written \cup {"SummaryToBeChecked.json"}
    /\ result' = "return None"
    /\ pc' = "done"
    /\ UNCHANGED <<input, given, args, output_exists, ci, file_sizes_to_json, executed,
                   ngroups, ran, last_call, nprimitive, summary_dict, call, returned>>

Next ==
    \/ RelVal
    \/ SizeAudit
    \/ DumpFileSizes
    \/ SkipCategory
    \/ BeginCategory
    \/ CompareTTree
    \/ CompareHistograms
    \/ SummariseCategory
    \/ Finalize

Spec == Init /\ [][Next]_vars

\* ---------------------------------------------------------------- claims on the run
BothFiles == input[1].isfile /\ input[2].isfile

BothSimDirs == \A i \in 1..2 : input[i].isdir /\ input[i].pipeline

Terminated == pc \in {"done", "error"}

\* the categories the five flags ask for, in program order
Requested ==
    IF \A c \in CategorySet : ~given[c] THEN Categories
    ELSE SelectSeq(Categories, LAMBDA c : given[c])

IsPrefix(a, b) == Len(a) <= Len(b) /\ a = SubSeq(b, 1, Len(a))

\* C1: with two single files the run calls rel_val_files once, starts the
\* external primitive once, completes normally and runs neither the size
\* audit nor any category.
C1_SingleFileRunsOnce ==
    (BothFiles /\ Terminated) =>
        /\ pc = "done"
        /\ nprimitive = 1
        /\ last_call # << >>
        /\ executed = << >>
        /\ "file_sizes.json" \notin written

\* C2: the value rel_val_files returns is the exit status of the external
\* primitive it waited for.
C2_ReturnsExitStatus ==
    last_call # << >> => last_call[1].ret = last_call[1].status

\* C6: the size audit flags files with, and records in its report, the
\* threshold given with --threshold.
C6_AuditUsesArgsThreshold ==
    file_sizes_to_json # << >> =>
        /\ file_sizes_to_json[1].report.threshold = args.threshold
        /\ Returns(file_sizes_to_json[1].report)
               = file_sizes(file_sizes_to_json[1].table, args.threshold)

\* C7: inputs that are neither two files nor two simulation directories make
\* rel_val return 1 without any comparison or size audit and without making
\* the output directory or writing into it.
C7_InvalidInputRejected ==
    (~BothFiles /\ ~BothSimDirs /\ pc # "rel_val") =>
        /\ pc = "done"
        /\ result = "return 1"
        /\ written = {}
        /\ nprimitive = 0
        /\ last_call = << >>
        /\ executed = << >>
        /\ file_sizes_to_json = << >>

\* one file and one simulation directory were rejected
C7_Witness ==
    /\ input[1].isfile
    /\ input[2].isdir /\ input[2].pipeline
    /\ pc = "done"
    /\ result = "return 1"

\* C8: in directory mode the executed categories are those whose flag is
\* set, or all five when no flag is set, in the order hits, tpctracks, kine,
\* analysis, qc and after the size audit.
C8_CategoriesFollowFlags ==
    BothSimDirs =>
        /\ IsPrefix(executed, Requested)
        /\ executed # << >> => "file_sizes.json" \in written
        /\ Terminated => executed = Requested

\* C9: in directory mode, once the size audit is done, no exit status of the
\* primitive and no output file that cannot be opened stops the run: it ends
\* in FINALIZE with every requested category run and both reports written.
C9_FailuresIsolated ==
    (BothSimDirs /\ "file_sizes.json" \in written) =>
        /\ pc # "error"
        /\ pc = "done" =>
              /\ {"file_sizes.json", "SummaryToBeChecked.json"} \subseteq written
              /\ executed = Requested

====
